---- MODULE Spec2Model ----
(***************************************************************************)
(* Model of src/src/async.ts: the polling loop pollUntilComplete, the      *)
(* abortable delay sleepWithAbort and the SupermodelClient facade.         *)
(*                                                                         *)
(* JavaScript runs every piece of code between two awaits as one           *)
(* uninterrupted step, so each action below is one such step: the facade   *)
(* call up to its first await, the continuation after the submit/check     *)
(* promise settles, the timer callback with the continuation it resumes,   *)
(* and AbortController.abort() with the listeners it dispatches to.        *)
(*                                                                         *)
(* An optional value (a field that may be undefined) is a set with at most *)
(* one element: {} is undefined, {v} is the value v.                       *)
(***************************************************************************)
EXTENDS Integers, FiniteSets, Sequences, TLC

(***************************************************************************)
(* Bounds of the model.                                                    *)
(***************************************************************************)
\* largest explicitly configured maxPollingAttempts
MaxAttemptsCfg == 2
\* the transport settles at most this many submit/check calls per session
MaxAnswers == 3
\* the clock stops advancing at MaxTime milliseconds
MaxTime == 3000
\* step of the clock, in milliseconds
Quantum == 1000

(***************************************************************************)
(* Program constants: the defaults of pollUntilComplete.                   *)
(***************************************************************************)
DefaultTimeoutMs == 900000
DefaultRetryIntervalMs == 10000
DefaultMaxPollingAttempts == 90

Calls == {1, 2}
Signals == {"client", "call1", "call2"}
CallSignal(c) == IF c = 1 THEN "call1" ELSE "call2"

None == {}
Some(v) == {v}
Val(x) == CHOOSE v \in x : TRUE

\* JavaScript truthiness of an optional number / an optional string
TruthyNum(x) == x # None /\ Val(x) # 0
TruthyStr(x) == x # None /\ Val(x) # ""

\* destructuring default: `name = dflt` applies when the option is undefined
OrDefault(x, dflt) == IF x = None THEN dflt ELSE Val(x)

(***************************************************************************)
(* Inputs.                                                                 *)
(***************************************************************************)
JobIds == {"j1", "j2"}
NonTerminal == {"pending", "processing", "queued"}
RetryAfters == {None, Some(0), Some(0 - 1), Some(2)}
Results == {None, Some("X"), Some("")}
ErrorTexts == {None, Some(""), Some("bad archive")}

Env(st, j, ra, er, rs) ==
  [status |-> st, jobId |-> j, retryAfter |-> ra, error |-> er, result |-> rs]

Envelopes ==
       {Env(st, j, ra, None, None) : st \in NonTerminal, j \in JobIds, ra \in RetryAfters}
  \cup {Env("completed", j, None, None, rs) : j \in JobIds, rs \in Results}
  \cup {Env("failed", j, None, er, None) : j \in JobIds, er \in ErrorTexts}
  \cup {Env("pending", "", None, None, None)}

TransportErrors == {"ECONNRESET", "HTTP 500"}

ClientOptionSets ==
  [timeoutMs : {None, Some(0), Some(2500)},
   defaultRetryIntervalMs : {None, Some(500)},
   maxPollingAttempts : {None} \cup {Some(n) : n \in 0..MaxAttemptsCfg},
   onPollingProgress : BOOLEAN,
   signal : {None, Some("client")}]

RequestOptionSets(c) ==
  [idempotencyKey : {None, Some(""), Some("my-key")},
   signal : {None, Some(CallSignal(c))}]

VARIABLES
  options,     \* SupermodelClient.options, as given to the constructor
  generated,   \* number of keys the client's generator has produced
  request,     \* request[c]: the GraphRequestOptions of facade call c
  sess,        \* sess[c]: the polling session of facade call c
  aborted,     \* aborted[s]: AbortSignal.aborted
  now          \* Date.now()

vars == <<options, generated, request, sess, aborted, now>>

(***************************************************************************)
(* Errors and outcomes.                                                    *)
(***************************************************************************)
JobFailedError(jobId, errorMessage) ==
  [name |-> "JobFailedError", jobId |-> jobId, errorMessage |-> errorMessage]

PollingTimeoutError(jobId, timeoutMs, attempts) ==
  [name |-> "PollingTimeoutError", jobId |-> jobId, timeoutMs |-> timeoutMs,
   attempts |-> attempts]

\* new Error('Polling aborted') with name = 'AbortError'
AbortError == [name |-> "AbortError", message |-> "Polling aborted"]

\* new Error(`Job ${jobId} completed but result is undefined`)
ResultUndefinedError(jobId) ==
  [name |-> "Error", message |-> "completed but result is undefined", jobId |-> jobId]

\* a rejection of the submit/check promise, rethrown by the await as it is
TransportError(e) == [name |-> "TransportError", cause |-> e]

Throw(s, err) == [s EXCEPT !.pc = "done", !.outcome = Some([kind |-> "thrown", error |-> err])]
\* return response.result: the value is optional, {} is undefined
Return(s, result) ==
  [s EXCEPT !.pc = "done", !.outcome = Some([kind |-> "returned", value |-> result])]

Returned(s) == s.outcome # None /\ Val(s.outcome).kind = "returned"
Threw(s, name) ==
  s.outcome # None /\ Val(s.outcome).kind = "thrown" /\ Val(s.outcome).error.name = name
Thrown(s) == Val(s.outcome).error

(***************************************************************************)
(* The effective options of pollUntilComplete.                             *)
(***************************************************************************)
TimeoutMs(o) == OrDefault(o.timeoutMs, DefaultTimeoutMs)
RetryIntervalMs(o) == OrDefault(o.defaultRetryIntervalMs, DefaultRetryIntervalMs)
MaxPollingAttempts(o) == OrDefault(o.maxPollingAttempts, DefaultMaxPollingAttempts)

\* signal?.aborted
SignalAborted(signal, ab) == signal # None /\ ab[Val(signal)]

\* the job id passed on without the placeholder
JobIdAsIs(jobId) == jobId

\* jobId || 'unknown'
JobIdOrUnknown(jobId) == IF jobId = "" THEN "unknown" ELSE jobId

\* the server's message dropped
ErrorMessageDropped(response) == "Unknown error"

\* response.error || 'Unknown error'
ErrorMessage(response) ==
  IF TruthyStr(response.error) THEN Val(response.error) ELSE "Unknown error"

\* (response.retryAfter || defaultRetryIntervalMs / 1000) * 1000
\* The seconds are kept in thousandths, so that the division is exact, as it
\* is in binary64 for the intervals used here (500 and 10000; it is not for
\* every interval: 1001 / 1000 * 1000 is 1000.9999999999999).
RetryAfterMs(response, defaultRetryIntervalMs) ==
  LET milliSeconds == IF TruthyNum(response.retryAfter)
                        THEN Val(response.retryAfter) * 1000
                        ELSE defaultRetryIntervalMs
  IN  (milliSeconds * 1000) \div 1000

\* nextRetryMs of the progress notification
NextRetryMs(response, defaultRetryIntervalMs) ==
  IF response.status = "completed" \/ response.status = "failed"
    THEN None
    ELSE Some(RetryAfterMs(response, defaultRetryIntervalMs))

\* setTimeout(fn, ms): a delay below zero is run as a delay of zero
TimerDelay(ms) == IF ms < 0 THEN 0 ELSE ms

\* sleepWithAbort without its first check of signal.aborted
SleepWithoutCheck(s, ms, t, ab) ==
  [s EXCEPT !.sleepMs = Some(ms),
            !.pc = "sleeping",
            !.timer = Some(t + TimerDelay(ms)),
            !.timerSetAt = t,
            !.timers = @ + 1,
            !.listener = s.opts.signal]

(***************************************************************************)
(* sleepWithAbort(ms, signal), up to the point where the promise is        *)
(* pending: rejected at once when the signal is aborted, else the timer is *)
(* started and onAbort is registered on the signal.                        *)
(***************************************************************************)
SleepWithAbort(s, ms, t, ab) ==
  LET s1 == [s EXCEPT !.sleepMs = Some(ms)] IN
  IF SignalAborted(s.opts.signal, ab)
    THEN Throw(s1, AbortError)
    ELSE [s1 EXCEPT !.pc = "sleeping",
                    !.timer = Some(t + TimerDelay(ms)),
                    !.timerSetAt = t,
                    !.timers = @ + 1,
                    !.listener = s.opts.signal]

\* the timer callback without signal?.removeEventListener('abort', onAbort)
OnTimeoutKeepsListener(s) == [s EXCEPT !.timer = None, !.settled = @ + 1]

\* the timer callback: deregister onAbort, resolve
OnTimeout(s) == [s EXCEPT !.timer = None, !.listener = None, !.settled = @ + 1]

\* the end of the loop body: response, status and retryAfterMs are locals of
\* one pass, and the notification was that of this pass
EndOfPass(s) == [s EXCEPT !.envelope = None, !.sleepMs = None, !.progress = None]

\* onAbort without its reject: the timer is cleared and the promise is left
\* pending
OnAbortSilent(s) == [s EXCEPT !.timer = None, !.listener = None, !.settled = @ + 1]

\* onAbort: clearTimeout, deregister, reject
OnAbort(s) ==
  Throw([s EXCEPT !.timer = None, !.listener = None, !.settled = @ + 1], AbortError)

(***************************************************************************)
(* pollUntilComplete: one pass from the loop condition to the await of the *)
(* submit/check call, at time t.                                           *)
(***************************************************************************)
\* while (true)
LoopConditionUnbounded(s) == TRUE

\* while (attempt <= maxPollingAttempts)
LoopConditionInclusive(s) == s.attempt <= MaxPollingAttempts(s.opts)

LoopCondition(s) == s.attempt < MaxPollingAttempts(s.opts)

\* if (elapsedMs > timeoutMs)
ElapsedCheckStrict(elapsedMs, timeoutMs) == elapsedMs > timeoutMs

ElapsedCheck(elapsedMs, timeoutMs) == elapsedMs >= timeoutMs

\* the loop without `if (signal?.aborted)` at the head of a pass
LoopIterationUnchecked(s, t, ab) ==
  LET timeoutMs == TimeoutMs(s.opts) IN
  IF ~LoopCondition(s)
    THEN Throw(s, PollingTimeoutError(JobIdOrUnknown(s.jobId), timeoutMs, s.attempt))
  ELSE
    LET s1 == [s EXCEPT !.attempt = @ + 1, !.elapsedMs = t - s.startTime] IN
    IF ElapsedCheck(s1.elapsedMs, timeoutMs)
      THEN Throw(s1, PollingTimeoutError(JobIdOrUnknown(s1.jobId), timeoutMs, s1.attempt))
      ELSE [s1 EXCEPT !.pc = "inflight",
                      !.calls = @ + 1,
                      !.keys = @ \cup {s.key}]

LoopIteration(s, t, ab) ==
  LET timeoutMs == TimeoutMs(s.opts) IN
  IF ~LoopCondition(s)
    THEN Throw(s, PollingTimeoutError(JobIdOrUnknown(s.jobId), timeoutMs, s.attempt))
  ELSE IF SignalAborted(s.opts.signal, ab)
    THEN Throw(s, AbortError)
  ELSE
    LET s1 == [s EXCEPT !.attempt = @ + 1, !.elapsedMs = t - s.startTime] IN
    IF ElapsedCheck(s1.elapsedMs, timeoutMs)
      THEN Throw(s1, PollingTimeoutError(JobIdOrUnknown(s1.jobId), timeoutMs, s1.attempt))
      ELSE [s1 EXCEPT !.pc = "inflight",
                      !.calls = @ + 1,
                      !.keys = @ \cup {s.key}]

\* the rejection caught and wrapped in a new error
OnRejectWrapped(s, e) == Throw([s EXCEPT !.rejection = Some(e)], TransportError("wrapped"))

\* const response = await apiCall(), when the promise rejects: the error is
\* thrown out of pollUntilComplete as it came
OnReject(s, e) == Throw([s EXCEPT !.rejection = Some(e)], TransportError(e))

\* the notification made only in the retry branch, after the terminal
\* statuses have been dealt with
NotifyProgressBeforeWait(s, response) ==
  IF s.opts.onPollingProgress /\ response.status \notin {"completed", "failed"}
    THEN [s EXCEPT !.progressCount = @ + 1,
                   !.progress = Some([jobId |-> s.jobId,
                                      status |-> response.status,
                                      attempt |-> s.attempt,
                                      maxAttempts |-> MaxPollingAttempts(s.opts),
                                      elapsedMs |-> s.elapsedMs,
                                      nextRetryMs |-> NextRetryMs(response, RetryIntervalMs(s.opts))])]
    ELSE s

\* if (onPollingProgress) onPollingProgress({...})
\* The callback is the caller's observer: it is taken to return normally.
NotifyProgress(s, response) ==
  IF s.opts.onPollingProgress
    THEN [s EXCEPT !.progressCount = @ + 1,
                   !.progress = Some([jobId |-> s.jobId,
                                      status |-> response.status,
                                      attempt |-> s.attempt,
                                      maxAttempts |-> MaxPollingAttempts(s.opts),
                                      elapsedMs |-> s.elapsedMs,
                                      nextRetryMs |-> NextRetryMs(response, RetryIntervalMs(s.opts))])]
    ELSE s

\* if (response.result) instead of if (response.result !== undefined)
ResultTruthy(response) == TruthyStr(response.result)

\* no check of the result at all
ResultAssumed(response) == TRUE

ResultPresent(response) == response.result # None

\* the loop body without its wait: a non-terminal envelope leads straight to
\* the next pass
OnResponseNoWait(s, response, t, ab) ==
  LET s1 == [s EXCEPT !.jobId = response.jobId,
                      !.received = @ + 1,
                      !.envelope = Some(response)]
      s2 == NotifyProgress(s1, response)
  IN
  IF response.status = "completed"
    THEN IF ResultPresent(response)
           THEN Return(s2, response.result)
           ELSE Throw(s2, ResultUndefinedError(s2.jobId))
  ELSE IF response.status = "failed"
    THEN Throw(s2, JobFailedError(s2.jobId, ErrorMessage(response)))
  ELSE LoopIteration(EndOfPass(s2), t, ab)

(***************************************************************************)
(* pollUntilComplete: from the envelope the call resolved with to the next *)
(* await (the wait) or to the end of the session.                          *)
(***************************************************************************)
OnResponse(s, response, t, ab) ==
  LET s1 == [s EXCEPT !.jobId = response.jobId,
                      !.received = @ + 1,
                      !.envelope = Some(response)]
      s2 == NotifyProgress(s1, response)
  IN
  IF response.status = "completed"
    THEN IF ResultPresent(response)
           THEN Return(s2, response.result)
           ELSE Throw(s2, ResultUndefinedError(s2.jobId))
  ELSE IF response.status = "failed"
    THEN Throw(s2, JobFailedError(s2.jobId, ErrorMessage(response)))
  ELSE SleepWithAbort(s2, RetryAfterMs(response, RetryIntervalMs(s2.opts)), t, ab)

(***************************************************************************)
(* SupermodelClient.                                                       *)
(***************************************************************************)
\* the keys the generator hands out, in order: all different
UUIDs == <<"uuid-1", "uuid-2", "uuid-3">>

\* options?.idempotencyKey ?? this.generateIdempotencyKey()
KeyDefined(req) == req.idempotencyKey # None

\* options?.idempotencyKey || this.generateIdempotencyKey()
KeySupplied(req) == TruthyStr(req.idempotencyKey)
ResolveKey(req, n) == IF KeySupplied(req) THEN Val(req.idempotencyKey) ELSE UUIDs[n + 1]

\* the per-call signal ignored: pollUntilComplete(..., this.options)
PollOptionsOfClient(req, clientOptions) == clientOptions

\* options?.signal ? { ...this.options, signal: options.signal } : this.options
PollOptions(req, clientOptions) ==
  IF req.signal # None THEN [clientOptions EXCEPT !.signal = req.signal] ELSE clientOptions

\* the session of a facade call that has not been made
NoSession ==
  [pc |-> "idle", key |-> "", opts |-> [timeoutMs |-> None,
                                        defaultRetryIntervalMs |-> None,
                                        maxPollingAttempts |-> None,
                                        onPollingProgress |-> FALSE,
                                        signal |-> None],
   startTime |-> 0, attempt |-> 0, jobId |-> "", elapsedMs |-> 0,
   timer |-> None, timerSetAt |-> 0, listener |-> None,
   generatorCalls |-> 0, calls |-> 0, keys |-> {}, received |-> 0, envelope |-> None,
   rejection |-> None,
   progressCount |-> 0, progress |-> None, sleepMs |-> None, timers |-> 0, settled |-> 0,
   outcome |-> None]

\* pollUntilComplete before its loop: startTime, attempt = 0, jobId = ''
NewSession(key, pollOptions, t, generatorCalls) ==
  [NoSession EXCEPT !.key = key, !.opts = pollOptions, !.startTime = t,
                    !.generatorCalls = generatorCalls]

(***************************************************************************)
(* Actions.                                                                *)
(***************************************************************************)
\* the facade method storing the options of the call in the client:
\* this.options = { ...this.options, signal: options.signal }
GenerateStoring(c) ==
  /\ sess[c].pc = "idle"
  /\ request[c] # None
  /\ LET req == Val(request[c])
         g == IF KeySupplied(req) THEN 0 ELSE 1
     IN  /\ generated + g <= Len(UUIDs)
         /\ generated' = generated + g
         /\ options' = PollOptions(req, options)
         /\ sess' = [sess EXCEPT ![c] =
                       LoopIteration(NewSession(ResolveKey(req, generated),
                                                PollOptions(req, options), now, g),
                                     now, aborted)]
  /\ UNCHANGED <<request, aborted, now>>

\* client.generateDependencyGraph(file, options) and the four methods like it:
\* the key, the poll options, and pollUntilComplete up to its first await
Generate(c) ==
  /\ sess[c].pc = "idle"
  /\ request[c] # None
  /\ LET req == Val(request[c])
         g == IF KeySupplied(req) THEN 0 ELSE 1
     IN  /\ generated + g <= Len(UUIDs)
         /\ generated' = generated + g
         /\ sess' = [sess EXCEPT ![c] =
                       LoopIteration(NewSession(ResolveKey(req, generated),
                                                PollOptions(req, options), now, g),
                                     now, aborted)]
  /\ UNCHANGED <<options, request, aborted, now>>

\* the envelopes two concurrent sessions are answered with: a job that is
\* pending and a job that has completed
PairEnvelopes ==
  {Env("pending", "j1", None, None, None),
   Env("completed", "j2", None, None, Some("X"))}

\* what `await apiCall()` can resolve with in this behaviour
Answers == IF \A c \in Calls : request[c] # None THEN PairEnvelopes ELSE Envelopes

\* the submit/check call resolves with an envelope
ApiResolve(c) ==
  /\ sess[c].pc = "inflight"
  /\ sess[c].received < MaxAnswers
  /\ \E response \in Answers :
       sess' = [sess EXCEPT ![c] = OnResponse(sess[c], response, now, aborted)]
  /\ UNCHANGED <<options, generated, request, aborted, now>>

\* the submit/check call rejects: the await rethrows
ApiReject(c) ==
  /\ sess[c].pc = "inflight"
  /\ \E e \in TransportErrors :
       sess' = [sess EXCEPT ![c] = OnReject(sess[c], e)]
  /\ UNCHANGED <<options, generated, request, aborted, now>>

\* the timer of the wait fires; the loop goes on to its next pass
TimerFire(c) ==
  /\ sess[c].pc = "sleeping"
  /\ sess[c].timer # None
  /\ now >= Val(sess[c].timer)
  /\ sess' = [sess EXCEPT ![c] = LoopIteration(EndOfPass(OnTimeout(sess[c])), now, aborted)]
  /\ UNCHANGED <<options, generated, request, aborted, now>>

\* the signals some facade call of this behaviour can be given
SignalsInUse ==
  {sg \in Signals : \/ options.signal = Some(sg)
                    \/ \E c \in Calls : request[c] # None /\ Val(request[c]).signal = Some(sg)}

\* an abort that rejects every pending wait, whatever signal it is under
AbortEveryWait(sg) ==
  /\ sg \in SignalsInUse
  /\ ~aborted[sg]
  /\ aborted' = [aborted EXCEPT ![sg] = TRUE]
  /\ sess' = [c \in Calls |-> IF sess[c].pc = "sleeping" THEN OnAbort(sess[c]) ELSE sess[c]]
  /\ UNCHANGED <<options, generated, request, now>>

\* controller.abort(): the signal is aborted and its listeners run
Abort(sg) ==
  /\ sg \in SignalsInUse
  /\ ~aborted[sg]
  /\ aborted' = [aborted EXCEPT ![sg] = TRUE]
  /\ sess' = [c \in Calls |-> IF sess[c].listener = Some(sg) THEN OnAbort(sess[c]) ELSE sess[c]]
  /\ UNCHANGED <<options, generated, request, now>>

\* time passes while a session awaits: to the next step of the clock, as far
\* as MaxTime, or to the deadline of a pending timer, however far that is
Awaiting == {c \in Calls : sess[c].pc \in {"inflight", "sleeping"}}
Deadlines == {Val(sess[c].timer) : c \in {d \in Calls : sess[d].timer # None}}

Tick ==
  /\ Awaiting # {}
  /\ \E t \in {now + Quantum} \cup Deadlines :
       /\ t > now
       /\ t <= MaxTime \/ t \in Deadlines
       /\ now' = t
  /\ UNCHANGED <<options, generated, request, sess, aborted>>

\* one facade call, made with the request options q on a client built with
\* the options o
InitWith(o, q) ==
  /\ options = o
  /\ generated = 0
  /\ request = [c \in Calls |-> IF c = 1 THEN Some(q) ELSE None]
  /\ sess = [c \in Calls |-> NoSession]
  /\ aborted = [sg \in Signals |-> FALSE]
  /\ now = 0

\* every configuration of the poller; the key is left to the generator
Init ==
  \E o \in ClientOptionSets, q \in RequestOptionSets(1) :
    /\ q.idempotencyKey = None
    /\ InitWith(o, q)

\* every form of the request options, on a client that polls every 500 ms
FacadeOptionSets ==
  {o \in ClientOptionSets : /\ o.timeoutMs = None
                            /\ o.defaultRetryIntervalMs # None
                            /\ o.maxPollingAttempts \in {None, Some(MaxAttemptsCfg)}
                            /\ ~o.onPollingProgress}

InitFacade ==
  \E o \in FacadeOptionSets, q \in RequestOptionSets(1) : InitWith(o, q)

\* two facade calls on one client, each with its own request options; either
\* may be made first, and the other while the first is polling or after it
PairOptionSets ==
  {o \in ClientOptionSets : /\ o.timeoutMs = Some(2500)
                            /\ o.defaultRetryIntervalMs # None
                            /\ o.maxPollingAttempts = Some(MaxAttemptsCfg)
                            /\ o.onPollingProgress}

\* call 1 is made with a key and a signal of its own or with no options,
\* call 2 with a signal of its own or with no options
PairRequestSets(c) ==
  {q \in RequestOptionSets(c) :
     \/ q.idempotencyKey = None /\ q.signal = None
     \/ q.idempotencyKey = (IF c = 1 THEN Some("my-key") ELSE None) /\ q.signal # None}

InitPair ==
  \E o \in PairOptionSets, q1 \in PairRequestSets(1), q2 \in PairRequestSets(2) :
    /\ options = o
    /\ generated = 0
    /\ request = [c \in Calls |-> IF c = 1 THEN Some(q1) ELSE Some(q2)]
    /\ sess = [c \in Calls |-> NoSession]
    /\ aborted = [sg \in Signals |-> FALSE]
    /\ now = 0

Next ==
  \/ \E c \in Calls : Generate(c)
  \/ \E c \in Calls : ApiResolve(c)
  \/ \E c \in Calls : ApiReject(c)
  \/ \E c \in Calls : TimerFire(c)
  \/ \E sg \in Signals : Abort(sg)
  \/ Tick

Spec == Init /\ [][Next]_vars

SpecFacade == InitFacade /\ [][Next]_vars

SpecPair == InitPair /\ [][Next]_vars

\* one facade call under every configuration with a configured attempt budget
InitLive ==
  \E o \in ClientOptionSets, q \in RequestOptionSets(1) :
    /\ o.maxPollingAttempts # None
    /\ q.idempotencyKey = None
    /\ InitWith(o, q)

\* the event loop: a call in flight settles, the clock runs on, a timer that
\* is due runs its callback
Fairness ==
  /\ WF_vars(Tick)
  /\ \A c \in Calls : /\ WF_vars(ApiResolve(c) \/ ApiReject(c))
                       /\ WF_vars(TimerFire(c))

SpecLive == InitLive /\ [][Next]_vars /\ Fairness

(***************************************************************************)
(* Claims.                                                                 *)
(***************************************************************************)
Terminal(status) == status \in {"completed", "failed"}

\* the session is in the pass that received the envelope e
Received(s, status) == s.envelope # None /\ Val(s.envelope).status = status

\* C1: whenever the submit/check call has resolved with a `completed`
\* envelope that holds a result, the session has ended by returning exactly
\* that result, and it has issued no call beyond the one that resolved
\* with it (as many calls as envelopes). Conversely a session returns
\* nothing but the result of the `completed` envelope it received last.
C1_ReturnsCompletedResult ==
  \A c \in Calls :
    LET s == sess[c] IN
    /\ (Received(s, "completed") /\ Val(s.envelope).result # None)
         => /\ s.pc = "done"
            /\ Returned(s)
            /\ Val(s.outcome).value = Val(s.envelope).result
            /\ s.calls = s.received
            /\ s.timer = None
    /\ Returned(s)
         => /\ Received(s, "completed")
            /\ Val(s.outcome).value = Val(s.envelope).result
            /\ Val(s.outcome).value # None

\* scenario A: a wait, then `completed` with the result X at the second call
C1_Witness ==
  \E c \in Calls :
    /\ Returned(sess[c])
    /\ Val(sess[c].outcome).value = Some("X")
    /\ sess[c].calls = 2
    /\ sess[c].timers = 1

\* C2 as stated: a `failed` envelope ends the session with a JobFailedError
\* that carries the envelope's jobId and its error, or 'Unknown error' when
\* the envelope has no error field; no further call is issued.
C2_FailedCarriesEnvelopeError ==
  \A c \in Calls :
    LET s == sess[c] IN
    Received(s, "failed")
      => /\ s.pc = "done"
         /\ Threw(s, "JobFailedError")
         /\ Thrown(s).jobId = Val(s.envelope).jobId
         /\ Thrown(s).errorMessage = (IF Val(s.envelope).error # None
                                        THEN Val(Val(s.envelope).error)
                                        ELSE "Unknown error")
         /\ s.calls = s.received

\* C2 amended: the JobFailedError carries the envelope's jobId, and the
\* envelope's error when that is a non-empty string; it carries 'Unknown
\* error' when the error is absent or the empty string. The session issues
\* no further call and starts no wait.
C2_FailedCarriesNonEmptyError ==
  \A c \in Calls :
    LET s == sess[c] IN
    /\ Received(s, "failed")
         => /\ s.pc = "done"
            /\ Threw(s, "JobFailedError")
            /\ Thrown(s).jobId = Val(s.envelope).jobId
            /\ Thrown(s).errorMessage =
                 (IF Val(s.envelope).error \in {None, Some("")}
                    THEN "Unknown error"
                    ELSE Val(Val(s.envelope).error))
            /\ s.calls = s.received
            /\ s.timer = None
    /\ Threw(s, "JobFailedError") => Received(s, "failed")

\* scenario C: failed(error = "bad archive"), here after one wait
C2_Witness ==
  \E c \in Calls :
    /\ Threw(sess[c], "JobFailedError")
    /\ Thrown(sess[c]).errorMessage = "bad archive"
    /\ Thrown(sess[c]).jobId = "j2"
    /\ sess[c].calls = 2

\* C3: a `completed` envelope without a result ends the session with the
\* error 'completed but result is undefined': nothing is returned, no wait
\* was asked for in that pass, no timer is pending and no further call is
\* issued. That error is thrown in no other case.
C3_CompletedWithoutResultFails ==
  \A c \in Calls :
    LET s == sess[c] IN
    /\ (Received(s, "completed") /\ Val(s.envelope).result = None)
         => /\ s.pc = "done"
            /\ Threw(s, "Error")
            /\ Thrown(s).jobId = Val(s.envelope).jobId
            /\ ~Returned(s)
            /\ s.sleepMs = None
            /\ s.timer = None
            /\ s.calls = s.received
    /\ Threw(s, "Error") => (Received(s, "completed") /\ Val(s.envelope).result = None)

\* scenario D, as the first envelope of the session
C3_Witness ==
  \E c \in Calls :
    /\ Threw(sess[c], "Error")
    /\ Received(sess[c], "completed")
    /\ sess[c].calls = 1
    /\ sess[c].timers = 0

\* the envelopes received so far were all non-terminal
NoTerminalEnvelope(s) == s.envelope = None \/ ~Terminal(Val(s.envelope).status)

\* C4: once a session has received maxPollingAttempts envelopes, all
\* non-terminal, it has issued exactly maxPollingAttempts calls and issues
\* no other: it is in the wait after the last one or has ended, and when it
\* has ended without being cancelled (C7) it has thrown a
\* PollingTimeoutError whose attempts is maxPollingAttempts.
C4_AttemptsExhausted ==
  \A c \in Calls :
    LET s == sess[c]
        max == MaxPollingAttempts(s.opts)
    IN
    (s.pc # "idle" /\ s.received >= max /\ NoTerminalEnvelope(s))
      => /\ s.received = max
         /\ s.calls = max
         /\ s.attempt = max
         /\ s.pc \in {"sleeping", "done"}
         /\ (s.pc = "done" /\ ~Threw(s, "AbortError"))
              => /\ Threw(s, "PollingTimeoutError")
                 /\ Thrown(s).attempts = max

\* scenario B with a budget of two attempts
C4_Witness ==
  \E c \in Calls :
    /\ Threw(sess[c], "PollingTimeoutError")
    /\ sess[c].opts.maxPollingAttempts = Some(2)
    /\ Thrown(sess[c]).attempts = 2
    /\ sess[c].received = 2
    /\ sess[c].timers = 2

\* C5: a pass of the loop that gets as far as the elapsed-time check (the
\* step increments attempt) with elapsed >= timeoutMs ends the session with
\* a PollingTimeoutError without issuing a call, whatever is left of the
\* attempt budget; and no step, the first pass included, issues a call when
\* the time elapsed since the start of the session is timeoutMs or more.
C5_ElapsedCheckedBeforeCall ==
  [][\A c \in Calls :
       LET s == sess[c]
           n == sess'[c]
           elapsed == now - n.startTime
       IN
       /\ (n.attempt = s.attempt + 1 /\ elapsed >= TimeoutMs(n.opts))
            => /\ Threw(n, "PollingTimeoutError")
               /\ Thrown(n).timeoutMs = TimeoutMs(n.opts)
               /\ n.calls = s.calls
       /\ n.calls # s.calls => elapsed < TimeoutMs(n.opts)
    ]_vars

\* the time budget ends a session that has most of its attempts left
C5_Witness ==
  \E c \in Calls :
    /\ Threw(sess[c], "PollingTimeoutError")
    /\ sess[c].opts.maxPollingAttempts = None
    /\ sess[c].attempt = 2
    /\ sess[c].calls = 1
    /\ sess[c].elapsedMs >= TimeoutMs(sess[c].opts)

\* C6 as stated: a facade call made when the handle of its session is
\* already triggered ends, for every maxPollingAttempts and timeoutMs, with
\* an AbortError and without a call.
C6_AbortedBeforeStart ==
  [][\A c \in Calls :
       (sess[c].pc = "idle" /\ sess'[c].pc # "idle"
          /\ SignalAborted(sess'[c].opts.signal, aborted))
         => /\ sess'[c].pc = "done"
            /\ sess'[c].calls = 0
            /\ Threw(sess'[c], "AbortError")
    ]_vars

\* C7: (a) when the handle of a session is triggered while the session is in
\* a wait, the same step ends the session with an AbortError: the clock has
\* not moved, the timer is cleared, the listener is gone and no call was
\* issued; (b) when a non-terminal envelope arrives while the handle is
\* already triggered, the session ends with an AbortError and no timer is
\* started; (c) a session that has ended takes no further step, so no call
\* follows; and no session is ever in a wait while its handle is triggered.
C7_AbortEndsWait ==
  [][\A c \in Calls :
       LET s == sess[c]
           n == sess'[c]
       IN
       /\ (s.pc = "sleeping" /\ SignalAborted(s.opts.signal, aborted'))
            => /\ n.pc = "done"
               /\ Threw(n, "AbortError")
               /\ now' = now
               /\ n.timer = None
               /\ n.listener = None
               /\ n.calls = s.calls
       /\ (s.pc = "inflight" /\ n.received = s.received + 1
              /\ ~Terminal(Val(n.envelope).status)
              /\ SignalAborted(s.opts.signal, aborted))
            => /\ n.pc = "done"
               /\ Threw(n, "AbortError")
               /\ n.timers = s.timers
               /\ n.timer = None
               /\ n.listener = None
       /\ s.pc = "done" => n = s
       /\ ~(n.pc = "sleeping" /\ SignalAborted(n.opts.signal, aborted'))
    ]_vars

\* a wait of 2000 ms cut short by the handle after 1000 ms
C7_Witness ==
  \E c \in Calls :
    /\ Threw(sess[c], "AbortError")
    /\ sess[c].sleepMs = Some(2000)
    /\ sess[c].timers = sess[c].received
    /\ now = sess[c].timerSetAt + 1000

\* C8 as stated: the wait after a non-terminal envelope is retryAfter * 1000
\* ms when retryAfter is present and positive, and defaultRetryIntervalMs
\* when it is absent, zero or negative.
C8_WaitDuration ==
  \A c \in Calls :
    LET s == sess[c] IN
    s.pc = "sleeping"
      => LET retryAfter == Val(s.envelope).retryAfter IN
         /\ s.sleepMs = Some(IF retryAfter # None /\ Val(retryAfter) > 0
                               THEN Val(retryAfter) * 1000
                               ELSE RetryIntervalMs(s.opts))
         /\ Val(s.timer) = s.timerSetAt + Val(s.sleepMs)

\* C9: when the submit/check call rejects, the session ends with the error
\* the call rejected with: the call was the last one, no wait was asked for
\* and no timer started in that pass, and the progress callback was not
\* invoked for that attempt (it has run once per envelope received, and the
\* rejected call delivered none).
C9_TransportErrorPropagates ==
  \A c \in Calls :
    LET s == sess[c] IN
    /\ s.rejection # None
         => /\ s.pc = "done"
            /\ Threw(s, "TransportError")
            /\ Thrown(s).cause = Val(s.rejection)
            /\ s.calls = s.received + 1
            /\ s.attempt = s.calls
            /\ s.envelope = None /\ s.progress = None /\ s.sleepMs = None
            /\ s.progressCount = (IF s.opts.onPollingProgress THEN s.received ELSE 0)
            /\ s.timers = s.received
            /\ s.timer = None
    /\ Threw(s, "TransportError") => s.rejection # None

\* the second call fails on a client with a progress callback
C9_Witness ==
  \E c \in Calls :
    /\ Threw(sess[c], "TransportError")
    /\ Thrown(sess[c]).cause = "HTTP 500"
    /\ sess[c].opts.onPollingProgress
    /\ sess[c].calls = 2
    /\ sess[c].progressCount = 1

\* the key every call of the session carries is k, and the generator was
\* invoked n times for the session
KeyFixed(s, k, n) ==
  /\ s.key = k
  /\ s.keys \subseteq {k}
  /\ s.calls > 0 => s.keys = {k}
  /\ s.generatorCalls = n

\* C10 as stated: with a caller-supplied key, whatever string it is, every
\* call carries that key and the generator is not invoked; without one the
\* generator is invoked once and every call carries the key it produced.
C10_KeyResolvedOnce ==
  \A c \in Calls :
    sess[c].pc # "idle"
      => LET key == Val(request[c]).idempotencyKey IN
         IF key # None
           THEN KeyFixed(sess[c], Val(key), 0)
           ELSE \E i \in 1..Len(UUIDs) : KeyFixed(sess[c], UUIDs[i], 1)

\* C10 amended: with a caller-supplied non-empty key every call carries
\* that key and the generator is not invoked; with no key or with the empty
\* string the generator is invoked exactly once, and every call of the
\* session carries the one key it produced.
C10_NonEmptyKeyResolvedOnce ==
  \A c \in Calls :
    sess[c].pc # "idle"
      => LET key == Val(request[c]).idempotencyKey IN
         IF key \notin {None, Some("")}
           THEN KeyFixed(sess[c], Val(key), 0) /\ generated = 0
           ELSE KeyFixed(sess[c], UUIDs[1], 1) /\ generated = 1

\* three calls made with the caller's key
C10_Witness ==
  \E c \in Calls :
    /\ request[c] # None
    /\ Val(request[c]).idempotencyKey = Some("my-key")
    /\ sess[c].keys = {"my-key"}
    /\ sess[c].calls = 3

\* the handle that governs the session of call c according to C11
GoverningSignal(c) ==
  IF Val(request[c]).signal # None THEN Val(request[c]).signal ELSE options.signal

\* C11: the session of a facade call polls under the per-call handle when
\* one is supplied and under the client-level handle otherwise, and under
\* no other: its listener is registered on that handle only, triggering any
\* other handle (the client-level one, when a per-call handle is supplied)
\* leaves the session as it is, triggering the governing handle during a
\* wait cancels it, and a session ends with an AbortError only when its
\* governing handle is triggered.
C11_PerCallSignalSubstitutes ==
  [][\A c \in Calls :
       LET s == sess[c]
           n == sess'[c]
       IN
       n.pc # "idle"
         => LET g == GoverningSignal(c) IN
            /\ n.opts.signal = g
            /\ n.listener \in {None, g}
            /\ Threw(n, "AbortError") => SignalAborted(g, aborted')
            /\ \A sg \in Signals :
                 (aborted'[sg] /\ ~aborted[sg])
                   => IF g = Some(sg) /\ s.pc = "sleeping"
                        THEN Threw(n, "AbortError")
                        ELSE n = s
    ]_vars

\* a session with a per-call handle waits on after the client-level handle
\* was triggered
C11_Witness ==
  \E c \in Calls :
    /\ request[c] # None
    /\ Val(request[c]).signal = Some(CallSignal(c))
    /\ options.signal = Some("client")
    /\ aborted["client"]
    /\ ~aborted[CallSignal(c)]
    /\ sess[c].pc = "sleeping"
    /\ sess[c].received = 2

\* C12 as stated: a progress notification has nextRetryMs undefined exactly
\* when the status of its envelope is terminal; for a non-terminal envelope
\* nextRetryMs is the envelope's retryAfter in milliseconds or the
\* configured default, and it is the duration of the wait that follows: the
\* delay of the timer the session then waits for.
C12_NextRetryIsTheWait ==
  \A c \in Calls :
    LET s == sess[c] IN
    s.progress # None
      => LET p == Val(s.progress)
             e == Val(s.envelope)
         IN
         /\ p.nextRetryMs = None <=> Terminal(e.status)
         /\ ~Terminal(e.status)
              => \/ e.retryAfter # None /\ Val(p.nextRetryMs) = Val(e.retryAfter) * 1000
                 \/ Val(p.nextRetryMs) = RetryIntervalMs(s.opts)
         /\ s.pc = "sleeping" => Val(p.nextRetryMs) = Val(s.timer) - s.timerSetAt

\* C13: a session has at most one submit/check call whose response is
\* outstanding, and a step issues a call (the attempt of the same number)
\* only when every earlier call has resolved with an envelope and, unless
\* the call is the first, the session is in the wait that followed the last
\* envelope, the timer of that wait has reached its deadline and the wait
\* was not cancelled; every earlier call was followed by such a wait.
C13_StrictlySequential ==
  [][\A c \in Calls :
       LET s == sess[c]
           n == sess'[c]
       IN
       /\ n.calls - n.received \in {0, 1}
       /\ n.pc = "inflight" => (n.calls = n.received + 1 /\ n.timer = None)
       /\ n.pc = "sleeping" => n.calls = n.received
       /\ n.calls # s.calls
            => /\ n.calls = s.calls + 1
               /\ n.attempt = n.calls
               /\ s.received = s.calls
               /\ s.timers = s.calls
               /\ \/ s.pc = "idle" /\ s.calls = 0
                  \/ /\ s.pc = "sleeping"
                     /\ now >= Val(s.timer)
                     /\ ~SignalAborted(s.opts.signal, aborted)
    ]_vars

\* the third call of a session in flight, after two envelopes and two waits
C13_Witness ==
  \E c \in Calls :
    /\ sess[c].pc = "inflight"
    /\ sess[c].calls = 3
    /\ sess[c].received = 2
    /\ sess[c].timers = 2

\* C14: (a) triggering the handle while the call of a session is in flight
\* leaves the session as it is, still waiting for the response; (b) the
\* envelope that then arrives is processed as ever: `completed` with a
\* result is returned, `completed` without one and `failed` raise their
\* errors, and a non-terminal one ends the session with an AbortError
\* without a timer being started; (c) no step issues a call for a session
\* whose handle is triggered.
C14_CancelDoesNotInterruptCall ==
  [][\A c \in Calls :
       LET s == sess[c]
           n == sess'[c]
       IN
       /\ (s.pc = "inflight" /\ aborted' # aborted) => n = s
       /\ (s.pc = "inflight" /\ n.received = s.received + 1
              /\ SignalAborted(s.opts.signal, aborted))
            => LET e == Val(n.envelope) IN
               /\ n.jobId = e.jobId
               /\ n.progressCount = s.progressCount + (IF s.opts.onPollingProgress THEN 1 ELSE 0)
               /\ (e.status = "completed" /\ e.result # None)
                    => (Returned(n) /\ Val(n.outcome).value = e.result)
               /\ (e.status = "completed" /\ e.result = None) => Threw(n, "Error")
               /\ e.status = "failed"
                    => (Threw(n, "JobFailedError") /\ Thrown(n).jobId = e.jobId)
               /\ ~Terminal(e.status)
                    => (Threw(n, "AbortError") /\ n.timers = s.timers /\ n.timer = None)
       /\ n.calls # s.calls => ~SignalAborted(n.opts.signal, aborted')
    ]_vars

\* the second call of a session is in flight and its handle is triggered
C14_Witness ==
  \E c \in Calls :
    /\ sess[c].pc = "inflight"
    /\ sess[c].calls = 2
    /\ SignalAborted(sess[c].opts.signal, aborted)

\* C15 as stated: every PollingTimeoutError carries the job id of the last
\* envelope received ('unknown' when none was received), the configured
\* timeoutMs and, as attempts, the number of calls the session issued.
C15_TimeoutErrorFields ==
  \A c \in Calls :
    LET s == sess[c] IN
    Threw(s, "PollingTimeoutError")
      => /\ Thrown(s).jobId = (IF s.received = 0 THEN "unknown" ELSE s.jobId)
         /\ Thrown(s).timeoutMs = TimeoutMs(s.opts)
         /\ Thrown(s).attempts = s.calls

\* C15 amended: every PollingTimeoutError carries the job id of the last
\* envelope received, or 'unknown' when none was received or that job id is
\* the empty string; the timeoutMs in force; and the attempt counter, which
\* is the number of calls issued when the attempt budget is exhausted and
\* one more than that when the elapsed-time check raised the error (the
\* attempt it stopped is counted, its call was never issued).
C15_TimeoutErrorCountsStoppedAttempt ==
  \A c \in Calls :
    LET s == sess[c] IN
    Threw(s, "PollingTimeoutError")
      => /\ Thrown(s).jobId = (IF s.received = 0 \/ s.jobId = "" THEN "unknown" ELSE s.jobId)
         /\ Thrown(s).timeoutMs = TimeoutMs(s.opts)
         /\ Thrown(s).attempts = s.attempt
         /\ s.received = s.calls
         /\ \/ /\ Thrown(s).attempts = s.calls
               /\ s.calls >= MaxPollingAttempts(s.opts)
            \/ /\ Thrown(s).attempts = s.calls + 1
               /\ s.calls < MaxPollingAttempts(s.opts)
               /\ s.elapsedMs >= TimeoutMs(s.opts)

\* the elapsed-time check stops the second attempt of a job known as j1
C15_Witness ==
  \E c \in Calls :
    /\ Threw(sess[c], "PollingTimeoutError")
    /\ Thrown(sess[c]).jobId = "j1"
    /\ Thrown(sess[c]).attempts = 2
    /\ sess[c].calls = 1

\* C16: a configured progress callback has been invoked exactly once per
\* envelope received, and never otherwise (so never for an attempt that
\* issued no call); the notification of an envelope is made in the step that
\* receives it, before its outcome, also when the envelope is terminal; it
\* carries the ordinal of the call as attempt and the jobId and status of
\* the envelope.
C16_ProgressOncePerEnvelope ==
  \A c \in Calls :
    LET s == sess[c] IN
    /\ s.progressCount = (IF s.opts.onPollingProgress THEN s.received ELSE 0)
    /\ s.progressCount <= s.calls
    /\ s.envelope # None /\ s.opts.onPollingProgress => s.progress # None
    /\ s.progress # None
         => /\ s.envelope # None
            /\ Val(s.progress).attempt = s.calls
            /\ Val(s.progress).attempt = s.received
            /\ Val(s.progress).jobId = Val(s.envelope).jobId
            /\ Val(s.progress).status = Val(s.envelope).status

\* the second envelope, a completed one, was notified as attempt 2 before the
\* result was returned
C16_Witness ==
  \E c \in Calls :
    /\ Returned(sess[c])
    /\ sess[c].progressCount = 2
    /\ sess[c].progress # None
    /\ Val(sess[c].progress).status = "completed"
    /\ Val(sess[c].progress).attempt = 2

\* C17 as stated: after an envelope whose status is neither `completed` nor
\* `failed` (pending, processing or any other string) the session is in a
\* wait of the selected retry duration (retryAfter * 1000 ms when retryAfter
\* is present and positive, else defaultRetryIntervalMs) unless it was
\* cancelled, and a session that received no terminal envelope has ended
\* only by the attempt budget, the time budget, cancellation or a rejected
\* call.
C17_OtherStatusesWaitAndRetry ==
  \A c \in Calls :
    LET s == sess[c] IN
    /\ s.envelope # None /\ ~Terminal(Val(s.envelope).status)
         => \/ Threw(s, "AbortError")
            \/ LET retryAfter == Val(s.envelope).retryAfter
                   selected == IF retryAfter # None /\ Val(retryAfter) > 0
                                 THEN Val(retryAfter) * 1000
                                 ELSE RetryIntervalMs(s.opts)
               IN  /\ s.pc = "sleeping"
                   /\ Val(s.timer) - s.timerSetAt = selected
    /\ s.pc = "done" /\ NoTerminalEnvelope(s)
         => \/ Threw(s, "PollingTimeoutError")
            \/ Threw(s, "AbortError")
            \/ Threw(s, "TransportError")

\* the listeners registered on a signal, and the waits pending under it
Listeners(sg) == {c \in Calls : sess[c].listener = Some(sg)}
ActiveWaits(sg) == {c \in Calls : sess[c].pc = "sleeping" /\ sess[c].opts.signal = Some(sg)}

\* C18: every wait that was started has settled exactly once, by its timer
\* or by cancellation, unless it is the one still pending; outside a pending
\* wait the session holds no timer and no listener on its signal (a wait
\* ended by cancellation ended with AbortError and its timer cleared); and
\* on every signal no more listeners are registered than waits are pending
\* under it.
C18_DelayReleasesResources ==
  /\ \A c \in Calls :
        LET s == sess[c] IN
        /\ s.settled = s.timers - (IF s.pc = "sleeping" THEN 1 ELSE 0)
        /\ s.pc = "sleeping" => s.timer # None /\ s.listener = s.opts.signal
        /\ s.pc # "sleeping" => s.timer = None /\ s.listener = None
  /\ \A sg \in Signals : Cardinality(Listeners(sg)) <= Cardinality(ActiveWaits(sg))

\* two waits under a signal have settled, the first one by its timer and the
\* second one, after the second envelope, by cancellation
C18_Witness ==
  \E c \in Calls :
    /\ sess[c].settled = 2
    /\ sess[c].timers = 2
    /\ sess[c].received = 2
    /\ sess[c].opts.signal # None
    /\ Threw(sess[c], "AbortError")
    /\ sess[c].listener = None

\* the keys the generator produces
GeneratedKeys == {UUIDs[i] : i \in 1..Len(UUIDs)}

\* C19: two facade calls on one client own independent sessions. A step
\* changes a session only if it is a step of that session alone (the other
\* session and every signal stay as they are) or the triggering of the
\* handle the session waits under; so triggering the per-call handle of one
\* call leaves the other session as it is, and a session ends with
\* AbortError only when its own governing handle was triggered. The key of
\* a session is the caller's or one the generator produced for it alone, its
\* attempt counter counts its own calls and its job id is that of its own
\* last envelope.
C19_SessionsIndependent ==
  [][\A c \in Calls :
       LET s == sess[c]
           n == sess'[c]
       IN
       /\ n # s
            => \/ /\ \A d \in Calls \ {c} : sess'[d] = sess[d]
                  /\ aborted' = aborted
               \/ \E sg \in Signals :
                    /\ aborted'[sg] /\ ~aborted[sg]
                    /\ GoverningSignal(c) = Some(sg)
                    /\ s.pc = "sleeping"
       /\ n.pc # "idle"
            => /\ Threw(n, "AbortError") => SignalAborted(GoverningSignal(c), aborted')
               /\ IF KeySupplied(Val(request[c]))
                    THEN KeyFixed(n, Val(Val(request[c]).idempotencyKey), 0)
                    ELSE /\ n.key \in GeneratedKeys
                         /\ KeyFixed(n, n.key, 1)
                         /\ \A d \in Calls \ {c} : sess'[d].pc # "idle" => sess'[d].key # n.key
               /\ n.attempt \in {n.calls, n.calls + 1}
               /\ n.calls \in {n.received, n.received + 1}
               /\ n.envelope # None => n.jobId = Val(n.envelope).jobId
               /\ n.received = 0 => n.jobId = ""
    ]_vars

\* call 2 was made while call 1 awaited its first answer; the handle of call
\* 1 was triggered during its wait and ended it, and call 2, under a handle
\* of its own, polled twice and returned
C19_Witness ==
  /\ Val(request[1]).signal = Some("call1")
  /\ Val(request[2]).signal = Some("call2")
  /\ aborted["call1"] /\ ~aborted["call2"]
  /\ sess[1].startTime = 0 /\ sess[1].timerSetAt = 1000
  /\ Threw(sess[1], "AbortError")
  /\ sess[1].received = 1 /\ sess[1].jobId = "j1"
  /\ sess[2].startTime = 0
  /\ Returned(sess[2])
  /\ sess[2].received = 2 /\ sess[2].jobId = "j2"

\* the request options of a call made without per-call options
NoRequestOptions == [idempotencyKey |-> None, signal |-> None]

\* C20: no step changes the options stored in the client, and a call made
\* without per-call options, whatever calls with per-call signals or keys
\* were made before it, polls with exactly the stored options (signal,
\* timeoutMs, defaultRetryIntervalMs, maxPollingAttempts, progress callback)
\* and under a key the generator produced for it, which no other session
\* carries.
C20_ClientOptionsUntouched ==
  [][/\ options' = options
     /\ \A c \in Calls :
          (request[c] = Some(NoRequestOptions) /\ sess'[c].pc # "idle")
            => /\ sess'[c].opts = options
               /\ sess'[c].key \in GeneratedKeys
               /\ KeyFixed(sess'[c], sess'[c].key, 1)
               /\ \A d \in Calls \ {c} : sess'[d].pc # "idle" => sess'[d].key # sess'[c].key
    ]_vars

\* call 1 ran with a key and a signal of its own; call 2, made later without
\* options, polls under the client's signal and the first generated key
C20_Witness ==
  /\ request[1] = Some([idempotencyKey |-> Some("my-key"), signal |-> Some("call1")])
  /\ request[2] = Some(NoRequestOptions)
  /\ options.signal = Some("client")
  /\ sess[1].pc = "done" /\ sess[1].startTime = 0 /\ sess[1].opts.signal = Some("call1")
  /\ sess[2].startTime = 1000
  /\ sess[2].pc = "sleeping"
  /\ sess[2].opts = options
  /\ sess[2].key = "uuid-1"

\* C21: in every state of a session the calls issued and the attempt
\* counter are at most maxPollingAttempts; the counter is 0 before the first
\* pass of the loop, no step lowers it, and a step raises it by exactly 1,
\* which happens exactly in a pass of the loop that goes beyond its abort
\* check: the pass that issues a call, or the one the elapsed-time check
\* stops. maxPollingAttempts is a number of attempts: 0, 1, 2, ...
C21_AttemptCounterBounded ==
  [][\A c \in Calls :
       LET s == sess[c]
           n == sess'[c]
           stopped == /\ Threw(n, "PollingTimeoutError") /\ s.pc # "done"
                      /\ n.calls < MaxPollingAttempts(n.opts)
       IN
       /\ s.pc = "idle" => s.attempt = 0 /\ s.calls = 0
       /\ n.calls <= MaxPollingAttempts(n.opts)
       /\ n.attempt >= 0 /\ n.attempt <= MaxPollingAttempts(n.opts)
       /\ n.attempt \in {s.attempt, s.attempt + 1}
       /\ n.calls \in {s.calls, s.calls + 1}
       /\ n.attempt = s.attempt + 1 <=> (n.calls = s.calls + 1 \/ stopped)
    ]_vars

\* the last call the budget allows is in flight: counter and calls both at
\* maxPollingAttempts
C21_Witness ==
  \E c \in Calls :
    /\ sess[c].pc = "inflight"
    /\ sess[c].opts.maxPollingAttempts = Some(MaxAttemptsCfg)
    /\ sess[c].attempt = MaxAttemptsCfg
    /\ sess[c].calls = MaxAttemptsCfg

\* the six ways pollUntilComplete ends
TerminalOutcome(s) ==
  /\ s.pc = "done"
  /\ \/ Returned(s)
     \/ \E name \in {"JobFailedError", "Error", "PollingTimeoutError", "AbortError",
                      "TransportError"} : Threw(s, name)

\* C22: when every call in flight settles and every pending timer fires or
\* is cancelled, a session that has started reaches a terminal outcome
\* (returned result, JobFailedError, the error of a completed envelope
\* without result, PollingTimeoutError, AbortError or the transport error),
\* whatever the attempt budget and whatever the server answers; and the
\* outcome is one: a session that has ended takes no further step.
C22_EverySessionTerminates ==
  /\ \A c \in Calls : (sess[c].pc # "idle") ~> TerminalOutcome(sess[c])
  /\ [][\A c \in Calls : sess[c].pc = "done" => sess'[c] = sess[c]]_vars

\* the server answered the whole budget with non-terminal envelopes, every
\* wait ran to its timer, and the session ended
C22_Witness ==
  \E c \in Calls :
    /\ sess[c].opts.maxPollingAttempts = Some(MaxAttemptsCfg)
    /\ sess[c].received = MaxAttemptsCfg
    /\ sess[c].settled = MaxAttemptsCfg
    /\ Threw(sess[c], "PollingTimeoutError")

====
